---------------------------- MODULE Spec2Model ----------------------------
(***************************************************************************)
(* gs-rs: the Position2D handler of the Gauss-Newton optimizer             *)
(* (src/src/optimizer/linear_system/pos2d_handler.rs) and the variable     *)
(* store (src/src/factor_graph/variable/mod.rs).                           *)
(*                                                                         *)
(* Arithmetic.  The program computes in f64.  The model computes in exact  *)
(* integers: lengths are integers and angles are counted in quarter turns, *)
(* so that PI is 2, a full turn is 4, and the sine and cosine of every     *)
(* angle of the model are exactly -1, 0 or 1.  Rotations, products and     *)
(* sums are then the exact values of the expressions the code evaluates.   *)
(***************************************************************************)
EXTENDS Integers, Sequences, FiniteSets

(***************************************************************************)
(* Bounds of the model.                                                    *)
(***************************************************************************)
\* factors of a graph
MaxFactors == 2
\* iterations asked of optimize
MaxIter == 1
\* angles given to the residual, in quarter turns either side of zero
MaxAngle == 8
\* length of a vector given to set_content
MaxLen == 8
\* calls of set_content on one variable
MaxSets == 2

\* std::f64::consts::PI, in quarter turns
PI == 2

VARIABLES
    variables,  \* the graph's variables: index -> Variable
    factors,    \* the graph's Position2D factors, each with its vehicle
    n,          \* the iteration count given to optimize
    iter,       \* iterations completed
    pc,         \* where optimize stands
    k,          \* the next factor of this iteration's assembly
    H, b,       \* the linear system being assembled
    call,       \* the last call of update_H_b: its arguments and the state before it
    before,     \* the estimates when optimize was called
    lastIter,   \* the last completed iteration: the estimates at its start
    cell,       \* a variable of the store, for set_content
    outcome,    \* the last call of set_content: its argument and how it ended
    sets,       \* calls of set_content made
    rot_v, rot_m, err_rot  \* the angles of a residual and the residual formed

vars == <<variables, factors, n, iter, pc, k, H, b, call, before, lastIter,
          cell, outcome, sets, rot_v, rot_m, err_rot>>

graphVars == <<variables, factors, n, iter, pc, k, H, b, call, before, lastIter>>
storeVars == <<cell, outcome, sets>>
angleVars == <<rot_v, rot_m, err_rot>>

(***************************************************************************)
(* nalgebra: the dense operations the handler uses.                        *)
(***************************************************************************)
\* cosine and sine of an angle in quarter turns
Cos(a) == CASE a % 4 = 0 -> 1 [] a % 4 = 1 -> 0 [] a % 4 = 2 -> -1 [] OTHER -> 0
Sin(a) == CASE a % 4 = 0 -> 0 [] a % 4 = 1 -> 1 [] a % 4 = 2 -> 0 [] OTHER -> -1

\* Rotation2::new(angle)
Rotation2(a) == << <<Cos(a), -Sin(a)>>, <<Sin(a), Cos(a)>> >>

\* Rotation2 * Vector2
Rot2Apply(R, p) == << R[1][1] * p[1] + R[1][2] * p[2], R[2][1] * p[1] + R[2][2] * p[2] >>

\* Rotation3::from_axis_angle(z_axis, angle).matrix()
Rotation3Z(a) == << <<Cos(a), -Sin(a), 0>>, <<Sin(a), Cos(a), 0>>, <<0, 0, 1>> >>

\* Matrix3 * Matrix3
MatMul3(A, B) ==
    [i \in 1..3 |-> [j \in 1..3 |-> A[i][1] * B[1][j] + A[i][2] * B[2][j] + A[i][3] * B[3][j]]]

\* Matrix3::transpose
Transpose3(A) == [i \in 1..3 |-> [j \in 1..3 |-> A[j][i]]]

\* RowVector3 * Matrix3, transposed to a column
RowTimes3(e, A) == [j \in 1..3 |-> e[1] * A[1][j] + e[2] * A[2][j] + e[3] * A[3][j]]

\* DMatrix::zeros(N, N) and DVector::zeros(N), indexed from 0 as in the code
ZeroMatrix(N) == [i \in 0..(N - 1) |-> [j \in 0..(N - 1) |-> 0]]
ZeroVector(N) == [i \in 0..(N - 1) |-> 0]

(***************************************************************************)
(* factor_graph::variable                                                  *)
(***************************************************************************)
Kinds == {"Vehicle2D", "Landmark2D", "Vehicle3D", "Landmark3D"}

Fixed == [tag |-> "Fixed", start |-> 0, end |-> 0]
NonFixed(s, e) == [tag |-> "NonFixed", start |-> s, end |-> e]

\* the length of the array a variable of each kind stores
StorageWidth(kind) ==
    CASE kind = "Vehicle2D" -> 3
      [] kind = "Landmark2D" -> 2
      [] kind = "Vehicle3D" -> 7
      [] kind = "Landmark3D" -> 3

\* VehicleVariable2D::new, wrapped as Variable::Vehicle2D
VehicleVariable2D_new(id, x, y, phi, fixed_type) ==
    [kind |-> "Vehicle2D", id |-> id, content |-> <<x, y, phi>>, fixed_type |-> fixed_type]

get_fixed_type(var) == var.fixed_type
get_content(var) == var.content
get_id(var) == var.id

\* Variable::set_content: the array is built from update[0 .. width-1]; an index
\* past the end of update panics before anything is stored, and entries of
\* update past the width are never read.
set_content(var, update) ==
    IF Len(update) < StorageWidth(var.kind)
    THEN [ended |-> "panic", var |-> var]
    ELSE [ended |-> "returned",
          var |-> [var EXCEPT !.content = SubSeq(update, 1, StorageWidth(var.kind))]]


(***************************************************************************)
(* optimizer::linear_system::pos2d_handler                                 *)
(*                                                                         *)
(* A factor is [constraint, information_matrix]: the constraint vector     *)
(* (x_m, y_m, phi_m) and the content of the information matrix.            *)
(***************************************************************************)
get_pos_and_rot(pose) == [pos |-> <<pose[1], pose[2]>>, rot |-> pose[3]]

calc_jacobians_NoTranspose(rot) ==
    LET jacobian == Rotation3Z(-rot) IN [jacobi |-> jacobian, jacobi_T |-> jacobian]

calc_jacobians(rot) ==
    LET jacobian == Rotation3Z(-rot) IN [jacobi |-> jacobian, jacobi_T |-> Transpose3(jacobian)]

\* whether index i lies in the half-open range
InRange(i, range) == range.start <= i /\ i < range.end

update_H_submatrix_Overwrite(Hm, added_matrix, range) ==
    [i \in DOMAIN Hm |-> [j \in DOMAIN Hm[i] |->
        IF InRange(i, range) /\ InRange(j, range)
        THEN added_matrix[i - range.start + 1][j - range.start + 1]
        ELSE Hm[i][j]]]

update_H_submatrix(Hm, added_matrix, range) ==
    [i \in DOMAIN Hm |-> [j \in DOMAIN Hm[i] |->
        IF InRange(i, range) /\ InRange(j, range)
        THEN Hm[i][j] + added_matrix[i - range.start + 1][j - range.start + 1]
        ELSE Hm[i][j]]]

update_b_subvector_NoOffset(bv, added_vector, range) ==
    [i \in DOMAIN bv |->
        IF i < range.end - range.start THEN bv[i] + added_vector[i + 1] ELSE bv[i]]

update_b_subvector(bv, added_vector, range) ==
    [i \in DOMAIN bv |->
        IF InRange(i, range) THEN bv[i] + added_vector[i - range.start + 1] ELSE bv[i]]

calc_err_pos_RotatesVehicleOnly(pos_v, pos_m, rot) ==
    LET r == Rot2Apply(Rotation2(-rot), pos_v) IN <<r[1] - pos_m[1], r[2] - pos_m[2]>>

\* let err_pos = Rotation2::new(-rot_m) * (pos_v - pos_m);
calc_err_pos(pos_v, pos_m, rot) ==
    Rot2Apply(Rotation2(-rot), <<pos_v[1] - pos_m[1], pos_v[2] - pos_m[2]>>)

\* let mut err_rot = rot_v - rot_m; and the one correction by a full turn
calc_err_rot(rv, rm) ==
    LET d == rv - rm
    IN  IF d > PI THEN d - 2 * PI
        ELSE IF d < -PI THEN d + 2 * PI
        ELSE d

\* update_H_b past its fixed_type test: range is the vehicle's range and
\* jac_rot the angle the Jacobian is formed at (rot_m in the code)
scatter(Hm, bv, factor, var, range, jac_rot) ==
    LET v == get_pos_and_rot(var.content)
        m == get_pos_and_rot(factor.constraint)
        jac == calc_jacobians(jac_rot)
        right_mult == MatMul3(factor.information_matrix, jac.jacobi)
        H_update == MatMul3(jac.jacobi_T, right_mult)
        err_pos == calc_err_pos(v.pos, m.pos, m.rot)
        err_vec == <<err_pos[1], err_pos[2], calc_err_rot(v.rot, m.rot)>>
        b_update == RowTimes3(err_vec, right_mult)
    IN  [H |-> update_H_submatrix(Hm, H_update, range),
         b |-> update_b_subvector(bv, b_update, range),
         pose |-> var.content]

update_H_b_NoEarlyReturn(Hm, bv, factor, var) ==
    scatter(Hm, bv, factor, var,
            IF var.fixed_type.tag = "NonFixed" THEN var.fixed_type ELSE NonFixed(0, 3),
            get_pos_and_rot(factor.constraint).rot)

update_H_b_JacobianAtVehicle(Hm, bv, factor, var) ==
    IF var.fixed_type.tag = "NonFixed"
    THEN scatter(Hm, bv, factor, var, var.fixed_type, get_pos_and_rot(var.content).rot)
    ELSE [H |-> Hm, b |-> bv, pose |-> var.content]

update_H_b_WritesPose(Hm, bv, factor, var) ==
    IF var.fixed_type.tag = "NonFixed"
    THEN scatter(Hm, bv, factor, var, var.fixed_type, get_pos_and_rot(factor.constraint).rot)
    ELSE [H |-> Hm, b |-> bv, pose |-> factor.constraint]

\* update_H_b: what it leaves in H, in b and in the vehicle's pose cell
update_H_b(Hm, bv, factor, var) ==
    IF var.fixed_type.tag = "NonFixed"
    THEN scatter(Hm, bv, factor, var, var.fixed_type, get_pos_and_rot(factor.constraint).rot)
    ELSE [H |-> Hm, b |-> bv, pose |-> var.content]

(***************************************************************************)
(* The graph and the optimizer around the handler.  Their code is not      *)
(* among the sources; they are modelled from the specification (sections   *)
(* 4.D, 4.F, 4.G, 4.H, 6 and 7).                                           *)
(***************************************************************************)
VarIds == {0, 1}

\* initial estimates of a vehicle, each with its angle in (-PI, PI]
Poses == { <<1, 0, 1>>, <<0, 1, -1>> }

\* constraints of a factor; the last angle lies more than a turn below -PI
Constraints == { <<1, 0, 1>>, <<0, 1, -7>> }

Identity3 == << <<1, 0, 0>>, <<0, 1, 0>>, <<0, 0, 1>> >>
Coupled3 == << <<2, 1, 0>>, <<1, 2, 1>>, <<0, 1, 2>> >>

\* symmetric positive definite information matrices
InformationMatrices == {Identity3, Coupled3}

Factors == [constraint : Constraints, information_matrix : InformationMatrices]

\* add_variable: a fixed variable receives no range, a free one the next
\* free range of its kind's local width
assign_ranges(fixed) ==
    [v \in VarIds |->
        IF fixed[v] THEN Fixed
        ELSE LET s == 3 * Cardinality({u \in VarIds : u < v /\ ~fixed[u]})
             IN  NonFixed(s, s + 3)]

total_free_dim(vs) == 3 * Cardinality({v \in DOMAIN vs : vs[v].fixed_type.tag = "NonFixed"})

\* wrap: the angle of (-PI, PI] that differs from a by whole turns
wrap(a) == ((a + PI - 1) % (2 * PI)) - (PI - 1)

\* the determinant of M on the given rows and columns (sequences of
\* indices), expanded along the first row
RECURSIVE DetOn(_, _, _)
RECURSIVE DetRow(_, _, _, _)
DetRow(M, rows, cols, j) ==
    IF j > Len(cols) THEN 0
    ELSE LET a == M[rows[1]][cols[j]]
             minor == DetOn(M, Tail(rows), SubSeq(cols, 1, j - 1) \o SubSeq(cols, j + 1, Len(cols)))
             term == IF a = 0 THEN 0 ELSE (IF j % 2 = 1 THEN a * minor ELSE -(a * minor))
         IN  term + DetRow(M, rows, cols, j + 1)

DetOn(M, rows, cols) == IF Len(rows) = 0 THEN 1 ELSE DetRow(M, rows, cols, 1)

Indices(N) == [i \in 1..N |-> i - 1]

Det(M) == LET N == Cardinality(DOMAIN M) IN DetOn(M, Indices(N), Indices(N))

\* M with column c replaced by the vector w
ReplaceColumn(M, c, w) == [i \in DOMAIN M |-> [j \in DOMAIN M[i] |-> IF j = c THEN w[i] ELSE M[i][j]]]

\* H * dx = -b by Cramer's rule: the numerators of dx over the common Det(H)
SolveNumerators(Hm, bv) == [i \in DOMAIN bv |-> Det(ReplaceColumn(Hm, i, [r \in DOMAIN bv |-> -bv[r]]))]

Solvable(Hm) == Det(Hm) # 0

\* whether the solution is a vector of integers
Representable(Hm, bv) ==
    LET d == Det(Hm) num == SolveNumerators(Hm, bv)
    IN  \A i \in DOMAIN bv : num[i] % (IF d < 0 THEN -d ELSE d) = 0

solve(Hm, bv) ==
    LET d == Det(Hm) num == SolveNumerators(Hm, bv)
        ad == IF d < 0 THEN -d ELSE d
        sg == IF d < 0 THEN -1 ELSE 1
    IN  [i \in DOMAIN bv |-> IF num[i] >= 0 THEN sg * (num[i] \div ad) ELSE -(sg * ((-num[i]) \div ad))]

\* the update of one variable: a free Vehicle2D moves by its segment of dx and
\* its angle is wrapped; a fixed variable is untouched
update_var(var, dx) ==
    IF get_fixed_type(var).tag = "NonFixed"
    THEN LET old == get_content(var)
             s == get_fixed_type(var).start
         IN  set_content(var, <<old[1] + dx[s], old[2] + dx[s + 1], wrap(old[3] + dx[s + 2])>>).var
    ELSE var

NoCall == [active |-> FALSE, factor |-> [constraint |-> <<0, 0, 0>>, information_matrix |-> Identity3],
           var |-> 0, H |-> <<>>, b |-> <<>>, variables |-> <<>>]

NoIter == [done |-> FALSE, zero |-> FALSE, start |-> <<>>]

NoOutcome == [called |-> FALSE, update |-> <<>>, ended |-> "none", prev |-> <<>>]

IdleCell == [kind |-> "Vehicle2D", id |-> 0, content |-> <<0, 0, 0>>, fixed_type |-> Fixed]

StoreIdle == cell = IdleCell /\ outcome = NoOutcome /\ sets = 0
AngleIdle == rot_v = 0 /\ rot_m = 0 /\ err_rot = <<>>
GraphIdle ==
    /\ variables = <<>> /\ factors = <<>> /\ n = 0 /\ iter = 0 /\ pc = "off" /\ k = 1
    /\ H = <<>> /\ b = <<>> /\ call = NoCall /\ before = <<>> /\ lastIter = NoIter

\* a built graph handed to optimize(graph, n)
Init ==
    /\ \E fixed \in [VarIds -> BOOLEAN], poses \in [VarIds -> Poses] :
         LET ranges == assign_ranges(fixed)
         IN  variables = [v \in VarIds |->
                 VehicleVariable2D_new(v, poses[v][1], poses[v][2], poses[v][3], ranges[v])]
    /\ \E m \in 0..MaxFactors : factors \in [1..m -> [factor : Factors, var : VarIds]]
    /\ n \in 0..MaxIter
    /\ iter = 0
    /\ pc = IF n = 0 THEN "done" ELSE "assemble"
    /\ k = 1
    /\ H = ZeroMatrix(total_free_dim(variables))
    /\ b = ZeroVector(total_free_dim(variables))
    /\ call = NoCall
    /\ before = variables
    /\ lastIter = NoIter
    /\ StoreIdle /\ AngleIdle

\* the assembler dispatches the next factor to update_H_b
HandleFactor ==
    /\ pc = "assemble"
    /\ k <= Len(factors)
    /\ LET e == factors[k]
           out == update_H_b(H, b, e.factor, variables[e.var])
       IN  /\ H' = out.H
           /\ b' = out.b
           /\ variables' = [variables EXCEPT ![e.var].content = out.pose]
           /\ call' = [active |-> TRUE, factor |-> e.factor, var |-> e.var,
                       H |-> H, b |-> b, variables |-> variables]
    /\ k' = k + 1
    /\ UNCHANGED <<factors, n, iter, pc, before, lastIter, storeVars, angleVars>>

\* the linear solve fails: SingularSystem
SolveSingular ==
    /\ pc = "assemble"
    /\ k > Len(factors)
    /\ ~Solvable(H)
    /\ pc' = "failed"
    /\ UNCHANGED <<variables, factors, n, iter, k, H, b, call, before, lastIter, storeVars, angleVars>>

\* the solution is not a vector of integers: the run leaves the model
SolveInexact ==
    /\ pc = "assemble"
    /\ k > Len(factors)
    /\ Solvable(H)
    /\ ~Representable(H, b)
    /\ pc' = "inexact"
    /\ UNCHANGED <<variables, factors, n, iter, k, H, b, call, before, lastIter, storeVars, angleVars>>

\* solve, update every variable, and begin the next iteration or return
SolveAndUpdate ==
    /\ pc = "assemble"
    /\ k > Len(factors)
    /\ Solvable(H)
    /\ Representable(H, b)
    /\ LET dx == solve(H, b)
       IN  variables' = [v \in DOMAIN variables |-> update_var(variables[v], dx)]
    /\ lastIter' = [done |-> TRUE, start |-> variables,
                    zero |-> \A i \in 1..Len(factors) :
                                variables[factors[i].var].content = factors[i].factor.constraint]
    /\ iter' = iter + 1
    /\ call' = NoCall
    /\ IF iter + 1 < n
       THEN /\ pc' = "assemble"
            /\ k' = 1
            /\ H' = ZeroMatrix(total_free_dim(variables))
            /\ b' = ZeroVector(total_free_dim(variables))
       ELSE /\ pc' = "done"
            /\ UNCHANGED <<k, H, b>>
    /\ UNCHANGED <<factors, n, before, storeVars, angleVars>>

Next == HandleFactor \/ SolveSingular \/ SolveInexact \/ SolveAndUpdate

Spec == Init /\ [][Next]_vars

(***************************************************************************)
(* The variable store alone: set_content called on one variable of any     *)
(* kind with vectors of every length up to MaxLen.                         *)
(***************************************************************************)
UpdateVectors == { [i \in 1..len |-> base + i] : len \in 0..MaxLen, base \in {10, 20} }

InitStore ==
    /\ \E kind \in Kinds :
         cell = [kind |-> kind, id |-> 0, content |-> [i \in 1..StorageWidth(kind) |-> 0],
                 fixed_type |-> Fixed]
    /\ outcome = NoOutcome
    /\ sets = 0
    /\ GraphIdle /\ AngleIdle

SetContent ==
    /\ sets < MaxSets
    /\ \E update \in UpdateVectors :
         LET r == set_content(cell, update)
         IN  /\ cell' = r.var
             /\ outcome' = [called |-> TRUE, update |-> update, ended |-> r.ended,
                            prev |-> get_content(cell)]
    /\ sets' = sets + 1
    /\ UNCHANGED <<graphVars, angleVars>>

NextStore == SetContent

SpecStore == InitStore /\ [][NextStore]_vars

(***************************************************************************)
(* The angular residual alone: the handler's err_rot for every pair of     *)
(* angles up to MaxAngle quarter turns either side of zero.                *)
(***************************************************************************)
InitAngle ==
    /\ rot_v \in (-MaxAngle)..MaxAngle
    /\ rot_m \in (-MaxAngle)..MaxAngle
    /\ err_rot = <<>>
    /\ GraphIdle /\ StoreIdle

FormResidual ==
    /\ err_rot = <<>>
    /\ err_rot' = <<calc_err_rot(rot_v, rot_m)>>
    /\ UNCHANGED <<rot_v, rot_m, graphVars, storeVars>>

NextAngle == FormResidual

SpecAngle == InitAngle /\ [][NextAngle]_vars

(***************************************************************************)
(* Properties.                                                             *)
(***************************************************************************)
\* the vehicle of the last call of update_H_b, as it was when called
LastVar == call.variables[call.var]
CalledOnFree == call.active /\ LastVar.fixed_type.tag = "NonFixed"
CalledOnFixed == call.active /\ LastVar.fixed_type.tag = "Fixed"
NonZero(Hm) == \E i \in DOMAIN Hm : \E j \in DOMAIN Hm[i] : Hm[i][j] # 0

\* C1: a Fixed variable's estimate is, at every step of optimize and after it,
\* the estimate it had when optimize was called.
FixedEstimatesKept ==
    \A v \in DOMAIN before :
        get_fixed_type(before[v]).tag = "Fixed" => get_content(variables[v]) = get_content(before[v])

\* optimize has returned after an iteration that moved a free variable, in a
\* graph with a Fixed variable that a factor is attached to
FixedEstimatesKeptWitness ==
    /\ pc = "done" /\ iter >= 1
    /\ \E v \in DOMAIN before :
         /\ get_fixed_type(before[v]).tag = "Fixed"
         /\ \E i \in 1..Len(factors) : factors[i].var = v
    /\ \E u \in DOMAIN before :
         /\ get_fixed_type(before[u]).tag = "NonFixed"
         /\ get_content(variables[u]) # get_content(before[u])

\* C2: a call of update_H_b on a Fixed vehicle leaves every entry of H and of
\* b as it was.
FixedCallLeavesSystem == CalledOnFixed => H = call.H /\ b = call.b

\* update_H_b was called on a Fixed vehicle when H already held a contribution
FixedCallLeavesSystemWitness == CalledOnFixed /\ NonZero(call.H)

\* the specification's Position2D handler: the Jacobian [[R2(-phi_m), 0], [0, 1]]
\* and the error (R2(-phi_m) * (p_v - p_m), wrap(phi_v - phi_m))
SpecJacobian(phi_m) ==
    LET R == Rotation2(-phi_m)
    IN  << <<R[1][1], R[1][2], 0>>, <<R[2][1], R[2][2], 0>>, <<0, 0, 1>> >>

SpecError(pose, constraint) ==
    LET ep == Rot2Apply(Rotation2(-constraint[3]), <<pose[1] - constraint[1], pose[2] - constraint[2]>>)
    IN  <<ep[1], ep[2], wrap(pose[3] - constraint[3])>>

MatVec3(A, e) == [i \in 1..3 |-> A[i][1] * e[1] + A[i][2] * e[2] + A[i][3] * e[3]]

SpecHContribution(factor) ==
    LET J == SpecJacobian(factor.constraint[3])
    IN  MatMul3(Transpose3(J), MatMul3(factor.information_matrix, J))

SpecBContribution(factor, pose) ==
    LET J == SpecJacobian(factor.constraint[3])
    IN  MatVec3(MatMul3(Transpose3(J), factor.information_matrix), SpecError(pose, factor.constraint))

\* C3: a call of update_H_b on a free vehicle with range r adds J^T Omega J to
\* H[r, r] and J^T Omega e to b[r], with e = (R2(-phi_m)(p_v - p_m), wrap(phi_v - phi_m)).
FreeCallAddsSpecContribution ==
    CalledOnFree =>
        LET s == LastVar.fixed_type.start
            dH == SpecHContribution(call.factor)
            db == SpecBContribution(call.factor, LastVar.content)
        IN  /\ \A i, j \in 1..3 : H[s + i - 1][s + j - 1] = call.H[s + i - 1][s + j - 1] + dH[i][j]
            /\ \A i \in 1..3 : b[s + i - 1] = call.b[s + i - 1] + db[i]

\* C4: a call of update_H_b on a free vehicle with range r changes nothing of
\* H outside H[r, r], nothing of b outside b[r], no variable and not the factor.
FreeCallFrame ==
    CalledOnFree =>
        LET r == LastVar.fixed_type
        IN  /\ DOMAIN H = DOMAIN call.H /\ DOMAIN b = DOMAIN call.b
            /\ \A i, j \in DOMAIN H :
                 ~(InRange(i, r) /\ InRange(j, r)) => H[i][j] = call.H[i][j]
            /\ \A i \in DOMAIN b : ~InRange(i, r) => b[i] = call.b[i]
            /\ variables = call.variables
            /\ factors[k - 1].factor = call.factor

\* update_H_b wrote the second vehicle's block while the first vehicle's block
\* and segment held contributions
FreeCallFrameWitness ==
    /\ CalledOnFree /\ LastVar.fixed_type.start = 3
    /\ H # call.H /\ b # call.b
    /\ call.H[0][0] # 0 /\ \E i \in 0..2 : call.b[i] # 0

\* C5: the angular residual is the wrapped difference of the two angles and
\* lies in (-PI, PI].
ResidualInHalfOpenInterval ==
    err_rot # <<>> =>
        /\ -PI < err_rot[1] /\ err_rot[1] <= PI
        /\ err_rot[1] = wrap(rot_v - rot_m)

\* C6: set_content with a vector whose length is not the storage width does
\* not return normally (a panic is counted here as the report of the error)
\* and leaves the stored estimate as it was.
WrongLengthRejected ==
    (outcome.called /\ Len(outcome.update) # StorageWidth(cell.kind)) =>
        outcome.ended # "returned" /\ get_content(cell) = outcome.prev

HBlockIndependentOfPose ==
    CalledOnFree =>
        \A p \in Poses \cup Constraints :
            update_H_b(call.H, call.b, call.factor, [LastVar EXCEPT !.content = p]).H = H

\* a call whose contribution to b does depend on the pose
HBlockIndependentOfPoseWitness ==
    /\ CalledOnFree /\ H # call.H
    /\ \E p \in Poses \cup Constraints :
         update_H_b(call.H, call.b, call.factor, [LastVar EXCEPT !.content = p]).b # b

\* C9: a call of update_H_b on a free vehicle whose pose equals the constraint
\* leaves b as it was, and an iteration in which this is so of every factor
\* leaves every estimate as it was.
ZeroResidualZeroGradient ==
    /\ (CalledOnFree /\ LastVar.content = call.factor.constraint) => b = call.b
    /\ (lastIter.done /\ lastIter.zero) => variables = lastIter.start

\* an iteration was completed in which every factor's constraint was its
\* vehicle's pose, one of them on a free vehicle with a coupled information matrix
ZeroResidualZeroGradientWitness ==
    /\ lastIter.done /\ lastIter.zero
    /\ \E i \in 1..Len(factors) :
         /\ lastIter.start[factors[i].var].fixed_type.tag = "NonFixed"
         /\ factors[i].factor.information_matrix = Coupled3

\* the system assembled from zero by handling the edges in the given order
RECURSIVE AssembleInOrder(_, _, _, _)
AssembleInOrder(Hm, bv, edges, order) ==
    IF order = <<>> THEN [H |-> Hm, b |-> bv]
    ELSE LET e == edges[Head(order)]
             out == update_H_b(Hm, bv, e.factor, variables[e.var])
         IN  AssembleInOrder(out.H, out.b, edges, Tail(order))

Orders(m) == {p \in [1..m -> 1..m] : \A i, j \in 1..m : p[i] = p[j] => i = j}

\* C10: the H and b assembled so far are those any other order of the same
\* factors gives.
AssemblyOrderIndependent ==
    pc = "assemble" =>
        \A order \in Orders(k - 1) :
            LET r == AssembleInOrder(ZeroMatrix(total_free_dim(variables)),
                                     ZeroVector(total_free_dim(variables)), factors, order)
            IN  r.H = H /\ r.b = b

\* two different factors on the same free vehicle were handled
AssemblyOrderIndependentWitness ==
    /\ pc = "assemble" /\ k > 2 /\ CalledOnFree
    /\ factors[1].var = factors[2].var
    /\ factors[1].factor.information_matrix # factors[2].factor.information_matrix
    /\ factors[1].factor.constraint # factors[2].factor.constraint

=============================================================================
